---- MODULE Spec2Model ----
(***************************************************************************)
(* SecureCom relay (server.py): the room registry ROOMS, the per-connection *)
(* session loop of websocket_handler, handle_disconnect and the fan-out of  *)
(* notify_users_in_room, as a state machine.  One step of a session is the  *)
(* code it runs between two suspension points (awaits) of the event loop.   *)
(***************************************************************************)
EXTENDS Integers, Sequences, FiniteSets, TLC

\* ---------------------------------------------------------------- bounds
\* Number of inbound frames the sessions consume in one behaviour.
MaxOps == 3

Conns == {"c1", "c2", "c3"}
Codes == {"AAAAAA", "BBBBBB"}
Names == {"User0001", "User0002"}

NONE    == "none"      \* Python None / absent field
NoCode  == "nocode"    \* payload without a (truthy) "code"
BadCode == "badcode"   \* payload whose "code" is unhashable (a JSON list)
Unknown == "Unknown"   \* fallback sender name of .get(ws, "Unknown")

VARIABLES
    ROOMS,      \* { roomCode: { ws: userName } }
    pc,         \* where each session is suspended
    cont,       \* what a session does when its gather returns
    cur,        \* current_room_code of each session
    join,       \* locals room_code, user_name of a join between its awaits
    sweep,      \* rest of list(ROOMS.keys()) in the finally block's loop
    open,       \* the client's transport is still connected
    tasks,      \* send_str coroutines gathered and not yet run, oldest first
    msg,        \* the inbound frame the last step took, if it took one
    wire,       \* the envelope the last step wrote to a transport, if any
    ops         \* number of inbound frames consumed so far

vars == <<ROOMS, pc, cont, cur, join, sweep, open, tasks, msg, wire, ops>>

\* ------------------------------------------------------- dict operations
EmptyDict == [x \in {} |-> NONE]

Put(f, k, v) == [x \in (DOMAIN f) \cup {k} |-> IF x = k THEN v ELSE f[x]]

Drop(f, k) == [x \in (DOMAIN f) \ {k} |-> f[x]]

\* ------------------------------------------------------------- envelopes
\* room and src are not on the wire: they record which broadcast (or which
\* session) an envelope came from.
Env(type, userName, room, message, src) ==
    [type |-> type, userName |-> userName, room |-> room,
     message |-> message, src |-> src]

Status(c) == Env("status", NONE, NONE, "Connected to SecureCom WebSocket server", c)

RoomCreated(c, room_code, name) == Env("room_created", name, room_code, NONE, c)

JoinedSuccess(c, room_code, name) == Env("joined_success", name, room_code, NONE, c)

UserJoined(c, room_code, name) == Env("user_joined", name, room_code, NONE, c)

\* slip: the departure notice goes out under the type of the leave reply
UserLeftAsError(c, room_code, name) == Env("error", name, room_code, NONE, c)

UserLeft(c, room_code, name) == Env("user_left", name, room_code, NONE, c)

NewMessage(c, room_code, sender) == Env("new_message", sender, room_code, NONE, c)

NewFile(c, room_code, sender) == Env("new_file", sender, room_code, NONE, c)

Error(c, message) == Env("error", NONE, NONE, message, c)

\* -------------------------------------------------------------- registry
\* ROOMS.setdefault(room_code, {})[ws] = user_name
RoomsAfterCreate(R, ws, room_code, name) ==
    Put(R, room_code,
        Put(IF room_code \in DOMAIN R THEN R[room_code] ELSE EmptyDict, ws, name))

\* slip: the existence test of join is lost
JoinRoomMissingNever(R, room_code) == FALSE

\* if room_code not in ROOMS: ... continue
JoinRoomMissing(R, room_code) == room_code \notin DOMAIN R

\* slip: join sets current_room_code and loses the insert
RoomsAfterJoinForgets(R, ws, room_code, name) == R

\* ROOMS[room_code][ws] = user_name
RoomsAfterJoin(R, ws, room_code, name) ==
    [R EXCEPT ![room_code] = Put(R[room_code], ws, name)]

\* if room_code in ROOMS and ws in ROOMS[room_code]
IsMember(R, ws, room_code) ==
    room_code \in DOMAIN R /\ ws \in DOMAIN R[room_code]

\* slip: handle_disconnect pops ws and keeps the emptied room
RoomsAfterDisconnectKeep(R, ws, room_code) ==
    IF IsMember(R, ws, room_code)
    THEN [R EXCEPT ![room_code] = Drop(R[room_code], ws)]
    ELSE R

\* slip: handle_disconnect deletes the room with everybody in it
RoomsAfterDisconnectDropRoom(R, ws, room_code) ==
    IF IsMember(R, ws, room_code) THEN Drop(R, room_code) ELSE R

\* handle_disconnect: pop ws, delete the room when it became empty
RoomsAfterDisconnect(R, ws, room_code) ==
    IF IsMember(R, ws, room_code)
    THEN LET members == Drop(R[room_code], ws)
         IN  IF DOMAIN members = {}
             THEN Drop(R, room_code)
             ELSE [R EXCEPT ![room_code] = members]
    ELSE R

\* slip: the snapshot loses one member of a room of several
RecipientsSkip(R, room_code) ==
    IF Cardinality(DOMAIN R[room_code]) > 1
    THEN DOMAIN R[room_code] \ {CHOOSE m \in DOMAIN R[room_code] : TRUE}
    ELSE DOMAIN R[room_code]

\* list(ROOMS[room_code].keys()) of one notify_users_in_room call
Recipients(R, room_code) == DOMAIN R[room_code]

RECURSIVE TasksFor(_, _, _)
\* tasks.append(ws.send_str(payload)) for ws in the snapshot S; sends to
\* different connections commute, so one order of S stands for all
TasksFor(by, S, env) ==
    IF S = {} THEN <<>>
    ELSE LET m == CHOOSE x \in S : TRUE
         IN  <<[by |-> by, to |-> m, env |-> env]>> \o TasksFor(by, S \ {m}, env)

\* notify_users_in_room: one send_str coroutine per member of the snapshot
NotifyTasks(R, by, room_code, env) ==
    IF room_code \notin DOMAIN R THEN <<>>
    ELSE TasksFor(by, Recipients(R, room_code), env)

\* the members handle_disconnect notifies (empty when it does not notify)
Notified(R, ws, room_code) ==
    IF IsMember(R, ws, room_code)
       /\ room_code \in DOMAIN RoomsAfterDisconnect(R, ws, room_code)
    THEN Recipients(RoomsAfterDisconnect(R, ws, room_code), room_code)
    ELSE {}

\* ------------------------------------------------- outcomes of one step
Outcome(R, newt, pcv, contv, sweepv) ==
    [rooms |-> R, newt |-> newt, pc |-> pcv, cont |-> contv, sweep |-> sweepv]

Idle(R) == Outcome(R, <<>>, "idle", NONE, {})

Gather(R, newt, contv, sweepv) == Outcome(R, newt, "gather", contv, sweepv)

\* the handler returns: the session is over
Term(R) == Outcome(R, <<>>, "closed", NONE, {})

\* await notify_users_in_room(...): gather suspends only if there are tasks
Notify(R, newt, contv, sweepv) ==
    IF newt = <<>> THEN Outcome(R, <<>>, contv, NONE, sweepv)
    ELSE Gather(R, newt, contv, sweepv)

\* slip: the sends of a new gather run ahead of the pending ones
ApplyAhead(c, res) ==
    /\ ROOMS' = res.rooms
    /\ tasks' = res.newt \o tasks
    /\ pc' = [pc EXCEPT ![c] = res.pc]
    /\ cont' = [cont EXCEPT ![c] = res.cont]
    /\ sweep' = [sweep EXCEPT ![c] = res.sweep]

Apply(c, res) ==
    /\ ROOMS' = res.rooms
    /\ tasks' = tasks \o res.newt
    /\ pc' = [pc EXCEPT ![c] = res.pc]
    /\ cont' = [cont EXCEPT ![c] = res.cont]
    /\ sweep' = [sweep EXCEPT ![c] = res.sweep]

NoFrame == [conn |-> NONE, kind |-> NONE, code |-> NONE]

NoWrite == [to |-> NONE, env |-> Env(NONE, NONE, NONE, NONE, NONE)]

NoJoin == [room_code |-> NONE, user_name |-> NONE]

\* msg = the next frame of `async for msg in ws`, taken by session c
Consume(c, kind, code) ==
    /\ msg' = [conn |-> c, kind |-> kind, code |-> code]
    /\ ops' = ops + 1

\* the step resumes a session, it takes no frame
Resume == msg' = NoFrame /\ ops' = ops

\* ws.send_str(json.dumps(env)) on an open transport
Send(c, env) == wire' = [to |-> c, env |-> env]

\* the step writes nothing
Silent == wire' = NoWrite

\* async for msg in ws: a frame is there to take
CanReceive(c) == pc[c] = "idle" /\ open[c] /\ ops < MaxOps

\* a write reaches the peer only while its transport and session are up
Alive(c) == open[c] /\ pc[c] # "closed"

\* ----------------------------------------------------------- the inputs
\* Room codes and user names are interchangeable strings and connections
\* that have done nothing yet are interchangeable clients: of the values no
\* part of the state mentions, one stands for all.
Range(s) == {s[i] : i \in DOMAIN s}

EnvsInState == {t.env : t \in Range(tasks)} \cup {wire.env}

CodesInUse ==
    (DOMAIN ROOMS \cup Range(cur) \cup UNION Range(sweep) \cup {msg.code}
        \cup {j.room_code : j \in Range(join)} \cup {e.room : e \in EnvsInState})
    \cap Codes

NamesInUse ==
    (UNION {Range(ROOMS[r]) : r \in DOMAIN ROOMS}
        \cup {j.user_name : j \in Range(join)} \cup {e.userName : e \in EnvsInState})
    \cap Names

ConnsInUse ==
    {c \in Conns : \/ pc[c] # "idle" \/ ~open[c] \/ cur[c] # NONE
                   \/ \E r \in DOMAIN ROOMS : c \in DOMAIN ROOMS[r]
                   \/ msg.conn = c \/ wire.to = c
                   \/ \E e \in EnvsInState : e.src = c
                   \/ \E t \in Range(tasks) : t.to = c}

OneUnused(All, InUse) ==
    IF All \subseteq InUse THEN InUse ELSE InUse \cup {CHOOSE x \in All \ InUse : TRUE}

\* the room codes a client may put in a frame, or random.choices may draw
CodeChoices == OneUnused(Codes, CodesInUse)

\* the names gen_username may draw
NameChoices == OneUnused(Names, NamesInUse)

\* the connections that may act next
ConnChoices == OneUnused(Conns, ConnsInUse)

\* --------------------------------------------------- the finally block
RECURSIVE DisconnectAll(_, _, _)
\* handle_disconnect(ws, rc) for every rc of D, none of which suspends
DisconnectAll(R, ws, D) ==
    IF D = {} THEN R
    ELSE LET rc == CHOOSE x \in D : TRUE
         IN  DisconnectAll(RoomsAfterDisconnect(R, ws, rc), ws, D \ {rc})

\* handle_disconnect(ws, room_code) of a member that leaves others behind:
\* it suspends in gather, and `after` runs once it returns
DisconnectThen(c, R, room_code, after, rest) ==
    LET R1 == RoomsAfterDisconnect(R, c, room_code)
    IN  Gather(R1, NotifyTasks(R1, c, room_code,
                               UserLeft(c, room_code, R[room_code][c])),
               after, rest)

\* for rc in list(ROOMS.keys()): if ws in ROOMS.get(rc, {}): await
\* handle_disconnect(ws, rc).  keys is what is left of the list.  The loop
\* runs on without suspending through the rooms ws is not in and the rooms
\* it empties; dict order is insertion order, here any order.
SweepOutcomes(c, R, keys) ==
    LET mine   == {rc \in keys : IsMember(R, c, rc)}
        alone  == {rc \in mine : DOMAIN R[rc] = {c}}
        shared == mine \ alone
    IN  IF shared = {}
        THEN {Term(DisconnectAll(R, c, alone))}
        ELSE {DisconnectThen(c, DisconnectAll(R, c, D), rc, "sweep",
                             mine \ (D \cup {rc})) :
                 rc \in shared, D \in SUBSET alone}

\* finally: if current_room_code: ... else: ...
FinallyOutcomes(c, R, room_code) ==
    IF room_code # NONE
    THEN IF Notified(R, c, room_code) # {}
         THEN {DisconnectThen(c, R, room_code, "closed", {})}
         ELSE {Term(RoomsAfterDisconnect(R, c, room_code))}
    ELSE SweepOutcomes(c, R, DOMAIN R)

\* ------------------------------------------------------------------ Init
\* every connection is accepted and has been sent the status envelope
Init ==
    /\ ROOMS = EmptyDict
    /\ pc = [c \in Conns |-> "idle"]
    /\ cont = [c \in Conns |-> NONE]
    /\ cur = [c \in Conns |-> NONE]
    /\ join = [c \in Conns |-> NoJoin]
    /\ sweep = [c \in Conns |-> {}]
    /\ open = [c \in Conns |-> TRUE]
    /\ tasks = <<>>
    /\ msg = NoFrame
    /\ wire = NoWrite
    /\ ops = 0

\* --------------------------------------------------------------- actions
\* the client goes away (close frame, reset, ...)
ClientClose(c) ==
    /\ open[c]
    /\ pc[c] # "closed"
    /\ open' = [open EXCEPT ![c] = FALSE]
    /\ Resume
    /\ Silent
    /\ UNCHANGED <<ROOMS, pc, cont, cur, join, sweep, tasks>>

\* kind == "create"
RecvCreate(c, custom_code, generated, name) ==
    /\ CanReceive(c)
    /\ LET room_code == IF custom_code # NoCode THEN custom_code ELSE generated
       IN  /\ Apply(c, Idle(RoomsAfterCreate(ROOMS, c, room_code, name)))
           /\ cur' = [cur EXCEPT ![c] = room_code]
           /\ Send(c, RoomCreated(c, room_code, name))
    /\ Consume(c, "create", custom_code)
    /\ UNCHANGED <<join, open>>

\* kind == "join"
RecvJoin(c, code, name) ==
    /\ CanReceive(c)
    /\ Consume(c, "join", code)
    /\ UNCHANGED open
    /\ IF code = NoCode
       THEN /\ Apply(c, Idle(ROOMS))
            /\ Send(c, Error(c, "Missing room code"))
            /\ UNCHANGED <<cur, join>>
       ELSE IF code = BadCode
       THEN \* `room_code not in ROOMS` raises TypeError: straight to finally
            /\ \E res \in FinallyOutcomes(c, ROOMS, cur[c]) : Apply(c, res)
            /\ Silent
            /\ UNCHANGED <<cur, join>>
       ELSE IF JoinRoomMissing(ROOMS, code)
       THEN /\ Apply(c, Idle(ROOMS))
            /\ Send(c, Error(c, "Room does not exist"))
            /\ UNCHANGED <<cur, join>>
       ELSE IF code \notin DOMAIN ROOMS
       THEN \* ROOMS[room_code] raises KeyError
            /\ \E res \in FinallyOutcomes(c, ROOMS, cur[c]) : Apply(c, res)
            /\ Silent
            /\ UNCHANGED <<cur, join>>
       ELSE /\ Apply(c, Outcome(RoomsAfterJoin(ROOMS, c, code, name), <<>>,
                                "join_notify", NONE, {}))
            /\ cur' = [cur EXCEPT ![c] = code]
            /\ join' = [join EXCEPT ![c] = [room_code |-> code, user_name |-> name]]
            /\ Send(c, JoinedSuccess(c, code, name))

\* the join resumes after its send_str: notify_users_in_room(user_joined)
JoinNotify(c) ==
    /\ pc[c] = "join_notify"
    /\ Apply(c, Notify(ROOMS, NotifyTasks(ROOMS, c, join[c].room_code,
                    UserJoined(c, join[c].room_code, join[c].user_name)), "idle", {}))
    /\ join' = [join EXCEPT ![c] = NoJoin]
    /\ Resume
    /\ Silent
    /\ UNCHANGED <<cur, open>>

\* kind == "leave"
RecvLeave(c) ==
    /\ CanReceive(c)
    /\ Consume(c, "leave", NONE)
    /\ UNCHANGED <<join, open>>
    /\ IF cur[c] = NONE
       THEN /\ Apply(c, Idle(ROOMS))
            /\ Send(c, Error(c, "Not in a room"))
            /\ UNCHANGED cur
       ELSE IF Notified(ROOMS, c, cur[c]) # {}
       THEN /\ Apply(c, DisconnectThen(c, ROOMS, cur[c], "leave", {}))
            /\ Silent
            /\ UNCHANGED cur
       ELSE /\ Apply(c, Idle(RoomsAfterDisconnect(ROOMS, c, cur[c])))
            /\ cur' = [cur EXCEPT ![c] = NONE]
            /\ Send(c, Error(c, "Left room"))

\* kind == "message"
RecvMessage(c) ==
    /\ CanReceive(c)
    /\ Consume(c, "message", NONE)
    /\ UNCHANGED <<cur, join, open>>
    /\ IF cur[c] = NONE
       THEN /\ Apply(c, Idle(ROOMS))
            /\ Send(c, Error(c, "Not in a room"))
       ELSE IF cur[c] \notin DOMAIN ROOMS
       THEN \* ROOMS[current_room_code] raises KeyError
            /\ \E res \in FinallyOutcomes(c, ROOMS, cur[c]) : Apply(c, res)
            /\ Silent
       ELSE LET sender == IF c \in DOMAIN ROOMS[cur[c]]
                          THEN ROOMS[cur[c]][c] ELSE Unknown
            IN  /\ Apply(c, Notify(ROOMS, NotifyTasks(ROOMS, c, cur[c],
                                NewMessage(c, cur[c], sender)), "idle", {}))
                /\ Silent

\* slip: the file branch loses its `if not current_room_code` test
RecvFileUnchecked(c) ==
    /\ CanReceive(c)
    /\ Consume(c, "file", NONE)
    /\ UNCHANGED <<cur, join, open>>
    /\ LET sender == IF IsMember(ROOMS, c, cur[c])
                     THEN ROOMS[cur[c]][c] ELSE Unknown
       IN  /\ Apply(c, Notify(ROOMS, NotifyTasks(ROOMS, c, cur[c],
                           NewFile(c, cur[c], sender)), "idle", {}))
           /\ Silent

\* kind == "file"
RecvFile(c) ==
    /\ CanReceive(c)
    /\ Consume(c, "file", NONE)
    /\ UNCHANGED <<cur, join, open>>
    /\ IF cur[c] = NONE
       THEN /\ Apply(c, Idle(ROOMS))
            /\ Send(c, Error(c, "Not in a room"))
       ELSE LET sender == IF IsMember(ROOMS, c, cur[c])
                          THEN ROOMS[cur[c]][c] ELSE Unknown
            IN  /\ Apply(c, Notify(ROOMS, NotifyTasks(ROOMS, c, cur[c],
                                NewFile(c, cur[c], sender)), "idle", {}))
                /\ Silent

\* slip: a frame that is not JSON is answered with an error envelope
RecvNonJsonReplies(c) ==
    /\ CanReceive(c)
    /\ Consume(c, "nonjson", NONE)
    /\ Send(c, Error(c, "Invalid JSON"))
    /\ UNCHANGED <<ROOMS, pc, cont, cur, join, sweep, open, tasks>>

\* json.loads(raw) raises JSONDecodeError: continue
RecvNonJson(c) ==
    /\ CanReceive(c)
    /\ Consume(c, "nonjson", NONE)
    /\ Silent
    /\ UNCHANGED <<ROOMS, pc, cont, cur, join, sweep, open, tasks>>

\* any other kind (also None, for a payload without action and type)
RecvUnknown(c) ==
    /\ CanReceive(c)
    /\ Consume(c, "unknown", NONE)
    /\ Send(c, Error(c, "Unknown action"))
    /\ UNCHANGED <<ROOMS, pc, cont, cur, join, sweep, open, tasks>>

\* asyncio.gather returned: the session runs on to its next await
GatherDone(c, raises) ==
    /\ pc[c] = "gather"
    /\ \A i \in 1..Len(tasks) : tasks[i].by # c
    /\ Resume
    /\ UNCHANGED <<join, open>>
    /\ IF cont[c] = "idle"
       THEN /\ ~raises
            /\ Apply(c, Idle(ROOMS))
            /\ Silent
            /\ UNCHANGED cur
       ELSE IF cont[c] = "closed"
       THEN /\ ~raises
            /\ Apply(c, Term(ROOMS))
            /\ Silent
            /\ UNCHANGED cur
       ELSE IF cont[c] = "sweep"
       THEN /\ ~raises
            /\ \E res \in SweepOutcomes(c, ROOMS, sweep[c]) : Apply(c, res)
            /\ Silent
            /\ UNCHANGED cur
       ELSE \* "leave": current_room_code = None, then send "Left room"
            /\ cur' = [cur EXCEPT ![c] = NONE]
            /\ IF open[c]
               THEN /\ ~raises
                    /\ Apply(c, Idle(ROOMS))
                    /\ Send(c, Error(c, "Left room"))
               ELSE \* the write to the closed transport is dropped, or
                    \* send_str raises and the finally block runs
                    /\ Silent
                    /\ IF raises
                       THEN \E res \in FinallyOutcomes(c, ROOMS, NONE) :
                                Apply(c, res)
                       ELSE Apply(c, Idle(ROOMS))

\* async for ends on the closed transport: the finally block runs
Disconnect(c) ==
    /\ pc[c] = "idle"
    /\ ~open[c]
    /\ \E res \in FinallyOutcomes(c, ROOMS, cur[c]) : Apply(c, res)
    /\ Resume
    /\ Silent
    /\ UNCHANGED <<cur, join, open>>

\* slip: a send that fails takes the other sends of its gather down with it
DeliverAborts ==
    /\ tasks # <<>>
    /\ LET Others(t) == t.by # Head(tasks).by
       IN  IF Alive(Head(tasks).to)
           THEN tasks' = Tail(tasks) /\ Send(Head(tasks).to, Head(tasks).env)
           ELSE tasks' = SelectSeq(Tail(tasks), Others) /\ Silent
    /\ Resume
    /\ UNCHANGED <<ROOMS, pc, cont, cur, join, sweep, open>>

\* the oldest gathered ws.send_str(payload) runs
Deliver ==
    /\ tasks # <<>>
    /\ tasks' = Tail(tasks)
    /\ IF Alive(Head(tasks).to)
       THEN Send(Head(tasks).to, Head(tasks).env)
       ELSE Silent
    /\ Resume
    /\ UNCHANGED <<ROOMS, pc, cont, cur, join, sweep, open>>

Next ==
    \/ \E c \in ConnChoices : ClientClose(c)
    \/ \E c \in ConnChoices, custom_code \in CodeChoices \cup {NoCode},
          generated \in CodeChoices, name \in NameChoices :
          RecvCreate(c, custom_code, generated, name)
    \/ \E c \in ConnChoices, code \in CodeChoices \cup {NoCode, BadCode},
          name \in NameChoices : RecvJoin(c, code, name)
    \/ \E c \in Conns : JoinNotify(c)
    \/ \E c \in ConnChoices : RecvLeave(c)
    \/ \E c \in ConnChoices : RecvMessage(c)
    \/ \E c \in ConnChoices : RecvFile(c)
    \/ \E c \in ConnChoices : RecvNonJson(c)
    \/ \E c \in ConnChoices : RecvUnknown(c)
    \/ \E c \in Conns, raises \in BOOLEAN : GatherDone(c, raises)
    \/ \E c \in Conns : Disconnect(c)
    \/ Deliver

Spec == Init /\ [][Next]_vars

\* ================================================================ claims
\* the step takes an inbound frame of this kind
Takes(kind) == ops' = ops + 1 /\ msg'.kind = kind

\* the send_str coroutines the step has gathered
NewTasks == SubSeq(tasks', Len(tasks) + 1, Len(tasks'))

RoomsOf(R, c) == {r \in DOMAIN R : c \in DOMAIN R[r]}

\* ------------------------------------------------------------------- C1
\* C1: every room id present in ROOMS maps to a member set with at least
\* one member, in every state any interleaving of the sessions reaches.
C1_NoEmptyRoom == \A r \in DOMAIN ROOMS : DOMAIN ROOMS[r] # {}

\* a leave has just emptied and deleted its room while another room lives
C1_Witness ==
    /\ msg.kind = "leave"
    /\ wire.to = msg.conn
    /\ wire.env.message = "Left room"
    /\ DOMAIN ROOMS # {}
    /\ \E c \in Conns : pc[c] = "closed"

\* ------------------------------------------------------------------- C2
\* C2: a connection appears in the member set of at most one room.
C2_AtMostOneRoom == \A c \in Conns : Cardinality(RoomsOf(ROOMS, c)) <= 1

\* ------------------------------------------------------------------- C3
\* C3: once a session has terminated its connection is a member of no room,
\* and a room whose members have all terminated no longer exists.
C3_TerminatedIsGone ==
    /\ \A c \in Conns : pc[c] = "closed" => RoomsOf(ROOMS, c) = {}
    /\ \A r \in DOMAIN ROOMS : \E m \in DOMAIN ROOMS[r] : pc[m] # "closed"

\* ------------------------------------------------------------------- C4
\* C4: a create with an explicit code that is a live room id sends an error
\* envelope to the creator and leaves that room's member set as it was.
C4_CreateExistingRejected ==
    [][(Takes("create") /\ msg'.code \in DOMAIN ROOMS)
        => /\ wire'.to = msg'.conn
           /\ wire'.env.type = "error"
           /\ msg'.code \in DOMAIN ROOMS'
           /\ ROOMS'[msg'.code] = ROOMS[msg'.code]]_vars

Broadcasts ==
    /\ Takes("message") \/ Takes("file")
    /\ cur[msg'.conn] \in DOMAIN ROOMS

\* the step runs the oldest gathered send
Delivers == tasks # <<>> /\ tasks' = Tail(tasks)

AllGone(r) == r \in DOMAIN ROOMS => \A m \in DOMAIN ROOMS[r] : pc[m] = "closed"

\* C7: once the last member of r has left or disconnected, a join with code
\* r fails with an error, and a create with explicit code r makes the
\* creator the only member of r.
C7_FreedRoomId ==
    [][/\ (Takes("join") /\ msg'.code \in Codes /\ AllGone(msg'.code))
            => wire'.to = msg'.conn /\ wire'.env.type = "error"
       /\ (Takes("create") /\ msg'.code \in Codes /\ AllGone(msg'.code))
            => DOMAIN ROOMS'[msg'.code] = {msg'.conn}]_vars

\* ------------------------------------------------------------------- C8
\* in this step d stops being a member of r: it is removed from ROOMS[r], or
\* its session ends
Departs(d, r) ==
    /\ IsMember(ROOMS, d, r)
    /\ pc[d] # "closed"
    /\ ~IsMember(ROOMS', d, r) \/ pc'[d] = "closed"

\* the connections that are members of r beside d after the step
Remaining(d, r) == IF r \in DOMAIN ROOMS' THEN DOMAIN ROOMS'[r] \ {d} ELSE {}

\* C8: each connection that remains a member of the room gets exactly one
\* user_left envelope per departed connection, however the departures
\* interleave: each departure gathers one user_left send per remaining
\* member, and each gathered send runs once.
C8_OneUserLeftEach ==
    [][/\ \A d \in Conns, r \in Codes : Departs(d, r) =>
            \A m \in Remaining(d, r) :
                Cardinality({i \in DOMAIN NewTasks :
                    /\ NewTasks[i].to = m
                    /\ NewTasks[i].env = UserLeft(d, r, ROOMS[r][d])}) = 1
       /\ Delivers =>
            wire' = IF Alive(Head(tasks).to)
                    THEN [to |-> Head(tasks).to, env |-> Head(tasks).env]
                    ELSE NoWrite]_vars

\* ------------------------------------------------------------------- C9
\* C9: within any room of ROOMS no two members share a display name.
C9_DistinctNames ==
    \A r \in DOMAIN ROOMS : \A a, b \in DOMAIN ROOMS[r] :
        a # b => ROOMS[r][a] # ROOMS[r][b]

\* ------------------------------------------------------------------ C10
\* C10: a create without a code inserts the creator under a generated room
\* id that was not in ROOMS before, so the creator is its sole member.
C10_GeneratedIdIsFresh ==
    [][(Takes("create") /\ msg'.code = NoCode)
        => /\ cur'[msg'.conn] \notin DOMAIN ROOMS
           /\ DOMAIN ROOMS'[cur'[msg'.conn]] = {msg'.conn}]_vars

\* ------------------------------------------------------------------ C11
\* the step runs code of session c: it takes a frame of c or resumes c
OwnStep(c) ==
    \/ ops' = ops + 1 /\ msg'.conn = c
    \/ pc'[c] # pc[c]
    \/ cont'[c] # cont[c]
    \/ sweep'[c] # sweep[c]

\* C11: an error envelope is never among the sends gathered by
\* notify_users_in_room, and a step that writes one writes it to the
\* connection whose frame the step is handling: the step takes a frame of
\* that connection, or resumes its leave after the user_left broadcast.
C11_ErrorToOriginatorOnly ==
    [][/\ \A t \in Range(NewTasks) : t.env.type # "error"
       /\ wire'.env.type = "error" =>
            /\ Len(tasks') >= Len(tasks)
            /\ wire'.env.src = wire'.to
            /\ \/ ops' = ops + 1 /\ msg'.conn = wire'.to
               \/ /\ ops' = ops
                  /\ pc[wire'.to] = "gather"
                  /\ cont[wire'.to] = "leave"]_vars

\* a leave that left members behind got its reply after the user_left
\* broadcast had run
C11_Witness ==
    /\ msg = NoFrame
    /\ wire.env.message = "Left room"
    /\ wire.to = wire.env.src
    /\ DOMAIN ROOMS # {}

\* ------------------------------------------------------------------ C12
\* C12: a frame that is not JSON is dropped: the step writes no envelope and
\* gathers no send, ROOMS and every current_room_code are unchanged, and the
\* session is back at the head of its loop.
C12_NonJsonDropped ==
    [][Takes("nonjson")
        => /\ wire' = NoWrite
           /\ tasks' = tasks
           /\ ROOMS' = ROOMS
           /\ cur' = cur
           /\ pc'[msg'.conn] = "idle"
           /\ open'[msg'.conn]]_vars

\* a session that is in a room had a frame that is not JSON dropped
C12_Witness ==
    /\ msg.kind = "nonjson"
    /\ cur[msg.conn] \in DOMAIN ROOMS
    /\ pc[msg.conn] = "idle"
    /\ wire = NoWrite

\* ------------------------------------------------------------------ C13
\* C13: a message, file or leave frame of a session whose current_room_code
\* is None writes the error envelope "Not in a room" to that connection,
\* gathers no send, and leaves ROOMS and the state of every session as it
\* was.
C13_NotInRoom ==
    [][((Takes("message") \/ Takes("file") \/ Takes("leave"))
          /\ cur[msg'.conn] = NONE)
        => /\ wire' = [to |-> msg'.conn, env |-> Error(msg'.conn, "Not in a room")]
           /\ tasks' = tasks
           /\ ROOMS' = ROOMS
           /\ <<pc, cont, cur, join, sweep>>' = <<pc, cont, cur, join, sweep>>]_vars

\* a session outside every room was refused while a room exists
C13_Witness ==
    /\ msg.kind \in {"message", "file", "leave"}
    /\ wire.to = msg.conn
    /\ wire.env.message = "Not in a room"
    /\ cur[msg.conn] = NONE
    /\ DOMAIN ROOMS # {}

\* ------------------------------------------------------------------ C14
\* session c resumes its join and calls notify_users_in_room(user_joined)
JoinNotifies(c) == pc[c] = "join_notify" /\ pc'[c] # "join_notify"

\* C14: a successful join writes joined_success to the joiner, and its
\* user_joined envelope is gathered for the other members of the room (the
\* members the room had before the joiner was inserted), not for the joiner.
C14_UserJoinedToPriorMembers ==
    [][/\ (Takes("join") /\ pc'[msg'.conn] = "join_notify")
            => wire' = [to |-> msg'.conn,
                        env |-> JoinedSuccess(msg'.conn, join'[msg'.conn].room_code,
                                              join'[msg'.conn].user_name)]
       /\ \A c \in Conns : JoinNotifies(c) =>
            /\ {t.to : t \in Range(NewTasks)}
                 = DOMAIN ROOMS[join[c].room_code] \ {c}
            /\ \A t \in Range(NewTasks) :
                 t.env = UserJoined(c, join[c].room_code, join[c].user_name)]_vars

\* ------------------------------------------------------------------ C15
\* C15: the entry of connection c in a room's member set goes away only in
\* a step of c's own session that is not a gathered send: its leave, or the
\* cleanup of its finally block; and it is given another name only by a
\* create or join of c itself.  A step of another session and a send to c,
\* failed or not, leave the entry alone.
C15_RemovedOnlyByOwnSession ==
    [][\A c \in Conns, r \in DOMAIN ROOMS :
          /\ (c \in DOMAIN ROOMS[r] /\ ~IsMember(ROOMS', c, r))
               => /\ OwnStep(c)
                  /\ Len(tasks') >= Len(tasks)
                  /\ \/ Takes("leave") /\ msg'.conn = c
                     \/ pc'[c] \in {"gather", "closed"}
          /\ (c \in DOMAIN ROOMS[r] /\ IsMember(ROOMS', c, r)
                 /\ ROOMS'[r][c] # ROOMS[r][c])
               => /\ msg'.conn = c
                  /\ Takes("create") \/ Takes("join")]_vars

\* session d has cleaned up and ended, its user_left to c has run against
\* c's closed transport, and c is still listed in the room
C15_Witness ==
    /\ msg = NoFrame
    /\ wire = NoWrite
    /\ tasks = <<>>
    /\ \E d \in Conns, c \in Conns :
          /\ c # d
          /\ pc[d] = "closed"
          /\ IsMember(ROOMS, c, cur[d])
          /\ ~open[c]
          /\ pc[c] = "idle"

\* ------------------------------------------------------------------ C16
\* the step runs a gathered send
RunsSend == Len(tasks') < Len(tasks)

\* C16: the sends of a broadcast are independent.  A step that runs a
\* gathered send removes that send alone from the pending ones, writes its
\* envelope iff its own member is up, whatever became of the other sends,
\* and changes no session and no room (nothing is raised into the
\* broadcaster); and when the gather of a join, message or file broadcast
\* returns, its session is back at the head of its loop.  A send that has
\* not completed is a gather that has not returned yet: the other sends run
\* all the same.
C16_IndependentSends ==
    [][/\ RunsSend =>
            /\ tasks' = Tail(tasks)
            /\ wire' = IF Alive(Head(tasks).to)
                       THEN [to |-> Head(tasks).to, env |-> Head(tasks).env]
                       ELSE NoWrite
            /\ <<ROOMS, pc, cont, cur, join, sweep, open>>'
                 = <<ROOMS, pc, cont, cur, join, sweep, open>>
       /\ \A c \in Conns :
            (pc[c] = "gather" /\ cont[c] = "idle" /\ pc'[c] # "gather")
            => /\ pc'[c] = "idle"
               /\ ROOMS' = ROOMS
               /\ cur' = cur]_vars

\* a broadcast whose snapshot holds a member with a closed transport has
\* been written to another member, its gather still pending
C16_Witness ==
    /\ msg = NoFrame
    /\ wire.env.type \in {"new_message", "new_file", "user_joined"}
    /\ wire.to \in Conns
    /\ pc[wire.env.src] = "gather"
    /\ cont[wire.env.src] = "idle"
    /\ \E d \in Conns \ {wire.to} :
          /\ IsMember(ROOMS, d, wire.env.room)
          /\ ~open[d]
          /\ \A i \in DOMAIN tasks : tasks[i].to # d

\* ------------------------------------------------------------------ C17
\* session c, whose current_room_code is None, runs its finally block: its
\* transport has closed while it was idle, or the reply to its leave raised
ClosesAfterLeave(c) ==
    \/ pc[c] = "idle" /\ ~open[c] /\ cur[c] = NONE /\ pc'[c] # "idle"
    \/ /\ pc[c] = "gather" /\ cont[c] = "leave"
       /\ pc'[c] = "closed" \/ cont'[c] = "sweep"

\* C17: a leave from room r gathers exactly one user_left per member that
\* remains in r, and when the transport of a session that has left (its
\* current_room_code is None) closes, the cleanup pass changes nothing in
\* ROOMS, gathers no send and ends the session.
C17_LeaveThenCloseOnce ==
    [][/\ (Takes("leave") /\ cur[msg'.conn] # NONE) =>
            \A m \in Remaining(msg'.conn, cur[msg'.conn]) :
                Cardinality({i \in DOMAIN NewTasks :
                    /\ NewTasks[i].to = m
                    /\ NewTasks[i].env.type = "user_left"
                    /\ NewTasks[i].env.src = msg'.conn}) = 1
       /\ \A c \in Conns : ClosesAfterLeave(c) =>
            /\ ROOMS' = ROOMS
            /\ tasks' = tasks
            /\ pc'[c] = "closed"]_vars

C19_SenderIsMember ==
    [][((Takes("message") \/ Takes("file")) /\ cur[msg'.conn] # NONE)
        => /\ IsMember(ROOMS, msg'.conn, cur[msg'.conn])
           /\ pc'[msg'.conn] = "gather"
           /\ cont'[msg'.conn] = "idle"
           /\ NewTasks # <<>>
           /\ \A t \in Range(NewTasks) :
                /\ t.env.userName = ROOMS[cur[msg'.conn]][msg'.conn]
                /\ t.env.userName # Unknown]_vars

\* a message or file of a member was written after another member of its
\* room had disconnected and been cleaned up
C19_Witness ==
    /\ wire.env.type \in {"new_message", "new_file"}
    /\ wire.env.userName \in Names
    /\ wire.to = wire.env.src
    /\ \E d \in Conns : pc[d] = "closed" /\ cur[d] = wire.env.room

\* ------------------------------------------------------------------ C20
\* C20: a session that waits for its next frame with current_room_code =
\* None is a member of no room, so no snapshot holds it and no pending
\* broadcast send is addressed to it that was gathered while it was so.
C20_UnjoinedIsNowhere ==
    \A c \in Conns :
        (pc[c] = "idle" /\ cur[c] = NONE) => RoomsOf(ROOMS, c) = {}

====
